---- MODULE Spec2Model ----
(***************************************************************************)
(* Sequential intelligence accumulation engine of solar-emergence:         *)
(* bridge/emergent_intelligence.py (class EmergentIntelligence) and the    *)
(* request handlers of bridge/ml_connector.py that drive it.               *)
(*                                                                         *)
(* Python strings that the code slices or concatenates (pattern types,     *)
(* descriptions, feature names, dictionary keys built from them) are       *)
(* sequences of one-character strings, so that slicing and concatenation   *)
(* are computed.  Strengths and correlation values are integers in         *)
(* hundredths (0.9 is 90).  Wall-clock timestamps (creation_time, the      *)
(* timestamp of a log row) are not part of the model; file modification    *)
(* times are, as a logical clock that advances on every save.              *)
(***************************************************************************)
EXTENDS Integers, Sequences, FiniteSets, TLC

\* Bounds of the model.
MaxVideos == 2
MaxIndex == 1
MaxSaves == 2
MaxLimit == 2

\* description[:20] in update_intelligence.
DescriptionLimit == 20

\* ---------------------------------------------------------------------------
\* Python helpers

Min(a, b) == IF a <= b THEN a ELSE b

Max(a, b) == IF a >= b THEN a ELSE b

\* d.get(key, default)
Get(d, key, default) == IF key \in DOMAIN d THEN d[key] ELSE default

\* s[:n]
Take(s, n) == SubSeq(s, 1, Min(n, Len(s)))

\* A Python dict keeps its keys in insertion order (and pickle keeps that
\* order): a dict is the sequence of its items, [key, value], in that order.
EmptyDict == <<>>

\* k in d
Has(d, k) == \E i \in 1..Len(d) : d[i].key = k

\* d[k] = [] whether or not k is in d.
SetDefaultResetting(d, k) ==
    IF Has(d, k)
    THEN [i \in 1..Len(d) |-> IF d[i].key = k THEN [d[i] EXCEPT !.value = <<>>] ELSE d[i]]
    ELSE Append(d, [key |-> k, value |-> <<>>])

\* if k not in d: d[k] = []
SetDefault(d, k) == IF Has(d, k) THEN d ELSE Append(d, [key |-> k, value |-> <<>>])

\* d[k].insert(0, e) in the place of d[k].append(e).
InsertFirstAt(d, k, e) ==
    [i \in 1..Len(d) |->
        IF d[i].key = k THEN [d[i] EXCEPT !.value = <<e>> \o @] ELSE d[i]]

\* d[k].append(e), for k in d
AppendAt(d, k, e) ==
    [i \in 1..Len(d) |->
        IF d[i].key = k THEN [d[i] EXCEPT !.value = Append(@, e)] ELSE d[i]]

\* ---------------------------------------------------------------------------
\* Literals of the source

TypeMicroTemporal ==
    <<"m", "i", "c", "r", "o", "_", "t", "e", "m", "p", "o", "r", "a", "l">>

TypeCrossModal == <<"c", "r", "o", "s", "s", "_", "m", "o", "d", "a", "l">>

DescMicroTemporal ==
    <<"E", "y", "e", "b", "r", "o", "w", " ", "A", "U", "2", " ", "a", "t", " ",
      "4", "3", ".", "2", "s", " ", "c", "o", "r", "r", "e", "l", "a", "t", "e",
      "s", " ", "w", "i", "t", "h", " ", "p", "o", "s", "i", "t", "i", "v", "e",
      " ", "o", "u", "t", "c", "o", "m", "e">>

DescCrossModal ==
    <<"V", "o", "i", "c", "e", " ", "p", "i", "t", "c", "h", " ", "d", "r", "o",
      "p", " ", "+", " ", "s", "h", "o", "u", "l", "d", "e", "r", " ", "r", "o",
      "t", "a", "t", "i", "o", "n", " ", "=", " ", "d", "e", "c", "i", "s", "i",
      "o", "n", " ", "p", "o", "i", "n", "t">>

FeatureA ==
    <<"f", "a", "c", "i", "a", "l", ".", "l", "a", "n", "d", "m", "a", "r", "k",
      "s", "[", "1", "2", "3", "]">>

FeatureB ==
    <<"a", "u", "d", "i", "o", ".", "p", "r", "o", "s", "o", "d", "y", "[", "4",
      "5", "]">>

\* The state a cold start creates (creation_time left out).
FreshState ==
    [videos_processed |-> 0,
     total_patterns |-> 0,
     total_correlations |-> 0,
     unknown_space_used |-> 0,
     discoveries |-> <<>>,
     pattern_strengths |-> EmptyDict,
     correlation_matrix |-> EmptyDict,
     meta_patterns |-> <<>>]

\* self.unknown_space: set to [] by __init__ and never written again.
unknown_space == <<>>

\* ---------------------------------------------------------------------------
\* update_intelligence

\* f"{pattern['type']}_{pattern.get('description', '')[:20]}"
PatternId(pattern) ==
    pattern.type \o <<"_">> \o Take(Get(pattern, "description", <<>>), DescriptionLimit)

\* f"{correlation['feature_a']}_{correlation['feature_b']}"
CorrelationKey(correlation) ==
    correlation.feature_a \o <<"_">> \o correlation.feature_b

\* The loop "Track pattern evolution" from its i-th pattern on: the dict it
\* leaves, and whether a KeyError ended it.
RECURSIVE TrackPatterns(_, _, _, _)
TrackPatterns(strengths, patterns, video_number, i) ==
    IF i > Len(patterns)
    THEN [raised |-> FALSE, value |-> strengths]
    ELSE LET pattern == patterns[i]
         IN  IF "type" \notin DOMAIN pattern
             THEN [raised |-> TRUE, value |-> strengths]
             ELSE LET pattern_id == PatternId(pattern)
                      entry == [video |-> video_number,
                                strength |-> Get(pattern, "strength", 0)]
                  IN  TrackPatterns(
                          AppendAt(SetDefault(strengths, pattern_id), pattern_id, entry),
                          patterns, video_number, i + 1)

\* The loop "Update correlation matrix" from its i-th correlation on.  A
\* record without "correlation" raises after its key was created.
RECURSIVE UpdateCorrelations(_, _, _, _)
UpdateCorrelations(matrix, correlations, video_number, i) ==
    IF i > Len(correlations)
    THEN [raised |-> FALSE, value |-> matrix]
    ELSE LET correlation == correlations[i]
         IN  IF "feature_a" \notin DOMAIN correlation \/ "feature_b" \notin DOMAIN correlation
             THEN [raised |-> TRUE, value |-> matrix]
             ELSE LET key == CorrelationKey(correlation)
                      withKey == SetDefault(matrix, key)
                  IN  IF "correlation" \notin DOMAIN correlation
                      THEN [raised |-> TRUE, value |-> withKey]
                      ELSE UpdateCorrelations(
                               AppendAt(withKey, key,
                                        [video |-> video_number,
                                         value |-> correlation.correlation]),
                               correlations, video_number, i + 1)

\* The row with the meta-patterns counted in the place of the unknown signals.
DiscoveryRowCountingMeta(discoveries, video_number) ==
    [video |-> video_number,
     patterns_found |-> Len(Get(discoveries, "patterns", <<>>)),
     correlations_found |-> Len(Get(discoveries, "correlations", <<>>)),
     unknown_signals |-> Len(Get(discoveries, "meta_patterns", <<>>))]

\* The row appended to state["discoveries"] (timestamp left out).
DiscoveryRow(discoveries, video_number) ==
    [video |-> video_number,
     patterns_found |-> Len(Get(discoveries, "patterns", <<>>)),
     correlations_found |-> Len(Get(discoveries, "correlations", <<>>)),
     unknown_signals |-> Len(Get(discoveries, "unknown", <<>>))]

\* The counters with the increment of videos_processed left out.
CountDiscoveriesNotVideos(st, patterns, correlations) ==
    [st EXCEPT !.total_patterns = @ + Len(patterns),
               !.total_correlations = @ + Len(correlations)]

\* The three counters update_intelligence advances first.
CountDiscoveries(st, patterns, correlations) ==
    [st EXCEPT !.videos_processed = @ + 1,
               !.total_patterns = @ + Len(patterns),
               !.total_correlations = @ + Len(correlations)]

\* The try block of update_intelligence: whether an exception ended it, and
\* the state it had reached by then.
TryUpdate(st, discoveries, video_number) ==
    LET patterns == Get(discoveries, "patterns", <<>>)
        correlations == Get(discoveries, "correlations", <<>>)
        counted == CountDiscoveries(st, patterns, correlations)
        tracked == TrackPatterns(counted.pattern_strengths, patterns, video_number, 1)
        afterPatterns == [counted EXCEPT !.pattern_strengths = tracked.value]
        correlated == UpdateCorrelations(afterPatterns.correlation_matrix,
                                         correlations, video_number, 1)
        afterCorrelations == [afterPatterns EXCEPT !.correlation_matrix = correlated.value]
        logged == [afterCorrelations EXCEPT
                      !.discoveries = Append(@, DiscoveryRow(discoveries, video_number))]
    IN  IF tracked.raised
        THEN [raised |-> TRUE, state |-> afterPatterns]
        ELSE IF correlated.raised
             THEN [raised |-> TRUE, state |-> afterCorrelations]
             ELSE [raised |-> FALSE, state |-> logged]

\* update_intelligence turning down every video_number that is not the
\* number of videos processed.
UpdateIntelligenceInOrderOnly(st, discoveries, video_number) ==
    LET tried == TryUpdate(st, discoveries, video_number)
    IN  IF video_number # st.videos_processed
        THEN [ok |-> FALSE, state |-> st]
        ELSE [ok |-> ~tried.raised, state |-> tried.state]

\* update_intelligence(discoveries, video_number): the value returned and
\* the state left behind.  The except branch returns False and undoes
\* nothing.
UpdateIntelligence(st, discoveries, video_number) ==
    LET tried == TryUpdate(st, discoveries, video_number)
    IN  [ok |-> ~tried.raised, state |-> tried.state]

\* ---------------------------------------------------------------------------
\* Discovery functions.  Every call of numpy's random generator is an input
\* of the step: a draw names the outcomes of the calls that decide what is
\* discovered (the confidence, occurrences, lag, significance and kurtosis
\* draws reach no state and are left out).

\* _find_meta_patterns runs on videos_processed > 10.
MetaHistory == 10

Draws ==
    { [micro_hit |-> TRUE, micro_strength |-> 90, cross_hit |-> TRUE,
       cross_strength |-> 50, correlation |-> 30, unusual_variance |-> TRUE],
      [micro_hit |-> FALSE, micro_strength |-> 0, cross_hit |-> FALSE,
       cross_strength |-> 0, correlation |-> -40, unusual_variance |-> FALSE] }

FindEmergentPatterns(draw) ==
    (IF draw.micro_hit
     THEN <<[type |-> TypeMicroTemporal, description |-> DescMicroTemporal,
             strength |-> draw.micro_strength]>>
     ELSE <<>>)
    \o (IF draw.cross_hit
        THEN <<[type |-> TypeCrossModal, description |-> DescCrossModal,
                strength |-> draw.cross_strength]>>
        ELSE <<>>)

DiscoverCorrelations(draw) ==
    <<[feature_a |-> FeatureA, feature_b |-> FeatureB,
       correlation |-> draw.correlation]>>

\* _find_meta_patterns with >= in the place of >.
FindMetaPatternsFromThreshold(st) ==
    IF st.videos_processed >= MetaHistory
    THEN <<[type |-> "pattern_evolution", trajectory |-> "ascending"]>>
    ELSE <<>>

FindMetaPatterns(st) ==
    IF st.videos_processed > MetaHistory
    THEN <<[type |-> "pattern_evolution", trajectory |-> "ascending"]>>
    ELSE <<>>

ExploreUnknownSpace(draw) ==
    IF draw.unusual_variance
    THEN <<[type |-> "unknown", requires_investigation |-> TRUE]>>
    ELSE <<>>

\* discover_patterns exploring the unknown space under the same condition as
\* the rest.
DiscoverPatternsUnknownWithHistory(st, draw, use_previous_intelligence) ==
    LET previous == use_previous_intelligence /\ st.videos_processed > 0
    IN  [patterns |-> IF previous THEN FindEmergentPatterns(draw) ELSE <<>>,
         correlations |-> IF previous THEN DiscoverCorrelations(draw) ELSE <<>>,
         unknown |-> IF previous THEN ExploreUnknownSpace(draw) ELSE <<>>,
         meta_patterns |-> IF previous THEN FindMetaPatterns(st) ELSE <<>>]

\* discover_patterns without the test of videos_processed.
DiscoverPatternsWithoutHistory(st, draw, use_previous_intelligence) ==
    LET previous == use_previous_intelligence
    IN  [patterns |-> IF previous THEN FindEmergentPatterns(draw) ELSE <<>>,
         correlations |-> IF previous THEN DiscoverCorrelations(draw) ELSE <<>>,
         unknown |-> ExploreUnknownSpace(draw),
         meta_patterns |-> IF previous THEN FindMetaPatterns(st) ELSE <<>>]

\* discover_patterns(features, video_number, use_previous_intelligence):
\* features and video_number are not read.
DiscoverPatterns(st, draw, use_previous_intelligence) ==
    LET previous == use_previous_intelligence /\ st.videos_processed > 0
    IN  [patterns |-> IF previous THEN FindEmergentPatterns(draw) ELSE <<>>,
         correlations |-> IF previous THEN DiscoverCorrelations(draw) ELSE <<>>,
         unknown |-> ExploreUnknownSpace(draw),
         meta_patterns |-> IF previous THEN FindMetaPatterns(st) ELSE <<>>]

\* The feature bundles discovery is handed: the five modalities
\* extract_everything returns, a bundle without "audio", and an empty one.
CompleteFeatures ==
    [facial |-> "signals", audio |-> "signals", temporal |-> "signals",
     cross_modal |-> "signals", unknown |-> "signals"]

FeaturesWithoutAudio ==
    [facial |-> "signals", temporal |-> "signals", cross_modal |-> "signals",
     unknown |-> "signals"]

FeatureBundles == {CompleteFeatures, FeaturesWithoutAudio, EmptyDict}

\* discover_patterns reading features["audio"].
DiscoverPatternsReadingAudio(features, st, draw, use_previous_intelligence) ==
    IF "audio" \in DOMAIN features
    THEN [raised |-> FALSE, returned |-> DiscoverPatterns(st, draw, use_previous_intelligence)]
    ELSE [raised |-> TRUE, returned |-> <<>>]

\* discover_patterns(features, ...) and the four functions it hands features
\* to: none of them reads features, so none raises over it.
DiscoverPatternsFrom(features, st, draw, use_previous_intelligence) ==
    [raised |-> FALSE, returned |-> DiscoverPatterns(st, draw, use_previous_intelligence)]

\* ---------------------------------------------------------------------------
\* Ranking and emergence summary (the content of the readable checkpoint)

\* _get_top_patterns(limit=10)
TopLimit == 10

\* history[0]["strength"] > 0.8, in hundredths
EmergenceThreshold == 80

RECURSIVE SumStrength(_, _)
SumStrength(history, i) ==
    IF i > Len(history) THEN 0 ELSE history[i].strength + SumStrength(history, i + 1)

\* np.mean of the strengths of a history, as the fraction sum / count.
Mean(history) == [num |-> SumStrength(history, 1), den |-> Len(history)]

\* a >= b, for fractions with positive denominators
MeanGE(a, b) == a.num * b.den >= b.num * a.den

\* One step of list.sort(key=average_strength): the lowest average first.
InsertByAverageAscending(sorted, e) ==
    LET n == Cardinality({i \in 1..Len(sorted) :
                             MeanGE(e.average_strength, sorted[i].average_strength)})
    IN  SubSeq(sorted, 1, n) \o <<e>> \o SubSeq(sorted, n + 1, Len(sorted))

\* One step of list.sort(key=average_strength, reverse=True): the sort is
\* stable, so e goes behind every entry whose average is not below its own.
InsertByAverage(sorted, e) ==
    LET n == Cardinality({i \in 1..Len(sorted) :
                             MeanGE(sorted[i].average_strength, e.average_strength)})
    IN  SubSeq(sorted, 1, n) \o <<e>> \o SubSeq(sorted, n + 1, Len(sorted))

RECURSIVE SortByAverage(_, _)
SortByAverage(entries, i) ==
    IF i = 0 THEN <<>> ELSE InsertByAverage(SortByAverage(entries, i - 1), entries[i])

RECURSIVE PatternsWithStrength(_, _)
PatternsWithStrength(strengths, i) ==
    IF i > Len(strengths)
    THEN <<>>
    ELSE LET history == strengths[i].value
         IN  (IF history # <<>>
              THEN <<[pattern |-> strengths[i].key,
                      average_strength |-> Mean(history),
                      occurrences |-> Len(history),
                      first_seen |-> history[1].video,
                      last_seen |-> history[Len(history)].video]>>
              ELSE <<>>)
             \o PatternsWithStrength(strengths, i + 1)

GetTopPatterns(st, limit) ==
    LET entries == PatternsWithStrength(st.pattern_strengths, 1)
    IN  Take(SortByAverage(entries, Len(entries)), limit)

\* The emergence events read off the last entry of each history, history[-1],
\* in the place of the first.
RECURSIVE EmergenceEventsAtLast(_, _)
EmergenceEventsAtLast(strengths, i) ==
    IF i > Len(strengths)
    THEN <<>>
    ELSE LET history == strengths[i].value
             last == history[Len(history)]
         IN  (IF history # <<>> /\ last.strength > EmergenceThreshold
              THEN <<[video |-> last.video,
                      pattern |-> strengths[i].key,
                      initial_strength |-> last.strength]>>
              ELSE <<>>)
             \o EmergenceEventsAtLast(strengths, i + 1)

\* The loop of _get_pattern_evolution_summary from the i-th key on.
RECURSIVE EmergenceEvents(_, _)
EmergenceEvents(strengths, i) ==
    IF i > Len(strengths)
    THEN <<>>
    ELSE LET history == strengths[i].value
         IN  (IF history # <<>> /\ history[1].strength > EmergenceThreshold
              THEN <<[video |-> history[1].video,
                      pattern |-> strengths[i].key,
                      initial_strength |-> history[1].strength]>>
              ELSE <<>>)
             \o EmergenceEvents(strengths, i + 1)

GetPatternEvolutionSummary(st) ==
    [total_videos |-> st.videos_processed,
     patterns_discovered |-> st.total_patterns,
     correlations_found |-> st.total_correlations,
     emergence_events |-> EmergenceEvents(st.pattern_strengths, 1)]

\* readable_state of save_checkpoint
ReadableState(st) ==
    [videos_processed |-> st.videos_processed,
     total_patterns |-> st.total_patterns,
     total_correlations |-> st.total_correlations,
     top_patterns |-> GetTopPatterns(st, TopLimit),
     pattern_evolution |-> GetPatternEvolutionSummary(st)]

\* ---------------------------------------------------------------------------
\* Checkpoint store: ./intelligence_checkpoints.  pkl maps the number in
\* intelligence_vNNNN.pkl to the file ([content, mtime]), json the number in
\* discoveries_vNNNN.json to its content.  A content is <<x>> for the file
\* that dump wrote in full and <<>> for the file that open(..., 'w')
\* truncated and dump did not fill.  Every save happens at a later time than
\* the ones before it, so no two pkl files have the same mtime.

EmptyStore == [pkl |-> <<>>, json |-> <<>>]

\* The file named n is created or replaced.
Put(files, n, file) ==
    [x \in DOMAIN files \cup {n} |-> IF x = n THEN file ELSE files[x]]

\* What the file system lets a save do.
SaveOutcomes ==
    {"saved", "pkl_open_fails", "pkl_dump_fails", "json_open_fails", "json_dump_fails"}

\* save_checkpoint with the summary written outside the try block, its
\* failure going unreported.
TrySaveIgnoringSummary(st, store, now, video_number, io) ==
    LET written == Put(store.pkl, video_number, [content |-> <<st>>, mtime |-> now])
        truncated == Put(store.pkl, video_number, [content |-> <<>>, mtime |-> now])
    IN  CASE io = "pkl_open_fails" ->
                 [raised |-> TRUE, store |-> store]
          [] io = "pkl_dump_fails" ->
                 [raised |-> TRUE, store |-> [store EXCEPT !.pkl = truncated]]
          [] io = "json_open_fails" ->
                 [raised |-> FALSE, store |-> [store EXCEPT !.pkl = written]]
          [] io = "json_dump_fails" ->
                 [raised |-> FALSE,
                  store |-> [pkl |-> written,
                             json |-> Put(store.json, video_number, <<>>)]]
          [] OTHER ->
                 [raised |-> FALSE,
                  store |-> [pkl |-> written,
                             json |-> Put(store.json, video_number,
                                          <<ReadableState(st)>>)]]

\* The try block of save_checkpoint(video_number) at time now: whether an
\* exception ended it, and the store it left.
TrySave(st, store, now, video_number, io) ==
    LET written == Put(store.pkl, video_number, [content |-> <<st>>, mtime |-> now])
        truncated == Put(store.pkl, video_number, [content |-> <<>>, mtime |-> now])
    IN  CASE io = "pkl_open_fails" ->
                 [raised |-> TRUE, store |-> store]
          [] io = "pkl_dump_fails" ->
                 [raised |-> TRUE, store |-> [store EXCEPT !.pkl = truncated]]
          [] io = "json_open_fails" ->
                 [raised |-> TRUE, store |-> [store EXCEPT !.pkl = written]]
          [] io = "json_dump_fails" ->
                 [raised |-> TRUE,
                  store |-> [pkl |-> written,
                             json |-> Put(store.json, video_number, <<>>)]]
          [] OTHER ->
                 [raised |-> FALSE,
                  store |-> [pkl |-> written,
                             json |-> Put(store.json, video_number,
                                          <<ReadableState(st)>>)]]

\* save_checkpoint without its except branch.
SaveCheckpointUncaught(st, store, now, video_number, io) ==
    LET tried == TrySave(st, store, now, video_number, io)
    IN  [ok |-> ~tried.raised, raised |-> tried.raised, store |-> tried.store]

\* save_checkpoint: the value returned, whether an exception leaves the
\* method (never: the except branch returns False), and the store left.
SaveCheckpoint(st, store, now, video_number, io) ==
    LET tried == TrySave(st, store, now, video_number, io)
    IN  [ok |-> ~tried.raised, raised |-> FALSE, store |-> tried.store]

\* The pkl file of the greatest number in its name.
FindGreatestIndexCheckpoint(pkl) ==
    IF DOMAIN pkl # {}
    THEN <<CHOOSE n \in DOMAIN pkl : \A m \in DOMAIN pkl : m <= n>>
    ELSE <<>>

\* min in the place of max.
FindOldestCheckpoint(pkl) ==
    IF DOMAIN pkl # {}
    THEN <<CHOOSE n \in DOMAIN pkl : \A m \in DOMAIN pkl : pkl[m].mtime >= pkl[n].mtime>>
    ELSE <<>>

\* _find_latest_checkpoint: <<n>> for the pkl file of the greatest mtime,
\* <<>> for None.
FindLatestCheckpoint(pkl) ==
    IF DOMAIN pkl # {}
    THEN <<CHOOSE n \in DOMAIN pkl : \A m \in DOMAIN pkl : pkl[m].mtime <= pkl[n].mtime>>
    ELSE <<>>

\* _load_or_initialize_state starting afresh when pickle.load raises.
LoadOrStartAfresh(pkl) ==
    LET latest_checkpoint == FindLatestCheckpoint(pkl)
    IN  IF latest_checkpoint # <<>> /\ pkl[latest_checkpoint[1]].content # <<>>
        THEN [raised |-> FALSE, state |-> pkl[latest_checkpoint[1]].content[1]]
        ELSE [raised |-> FALSE, state |-> FreshState]

\* _load_or_initialize_state: the state returned, or the exception of
\* pickle.load, which nothing catches.
LoadOrInitializeState(pkl) ==
    LET latest_checkpoint == FindLatestCheckpoint(pkl)
    IN  IF latest_checkpoint # <<>>
        THEN LET content == pkl[latest_checkpoint[1]].content
             IN  IF content = <<>>
                 THEN [raised |-> TRUE, state |-> <<>>]
                 ELSE [raised |-> FALSE, state |-> content[1]]
        ELSE [raised |-> FALSE, state |-> FreshState]

\* get_current_state dividing by videos_processed itself.
GetCurrentStateDividingByCount(st) ==
    [videos_processed |-> st.videos_processed,
     total_patterns |-> st.total_patterns,
     total_correlations |-> st.total_correlations,
     unknown_space_used |-> [num |-> Len(unknown_space), den |-> 1000],
     last_checkpoint |-> Get(st, "last_checkpoint", "None"),
     metrics |->
         [pattern_diversity |-> Len(st.pattern_strengths),
          correlation_density |-> Len(st.correlation_matrix),
          discovery_rate |-> [num |-> st.total_patterns,
                              den |-> st.videos_processed]]]

\* get_current_state
GetCurrentState(st) ==
    [videos_processed |-> st.videos_processed,
     total_patterns |-> st.total_patterns,
     total_correlations |-> st.total_correlations,
     unknown_space_used |-> [num |-> Len(unknown_space), den |-> 1000],
     last_checkpoint |-> Get(st, "last_checkpoint", "None"),
     metrics |->
         [pattern_diversity |-> Len(st.pattern_strengths),
          correlation_density |-> Len(st.correlation_matrix),
          discovery_rate |-> [num |-> st.total_patterns,
                              den |-> Max(1, st.videos_processed)]]]

\* get_recent_discoveries(limit): discoveries[-limit:] of a log that is not
\* empty.  A slice starts at len - limit (not below 0) when -limit is
\* negative and at -limit (not beyond len) otherwise: -0 is 0, the start of
\* the log.
GetRecentDiscoveries(st, limit) ==
    LET discoveries == st.discoveries
        start == IF 0 - limit < 0
                 THEN Max(Len(discoveries) - limit, 0)
                 ELSE Min(0 - limit, Len(discoveries))
    IN  IF discoveries # <<>>
        THEN SubSeq(discoveries, start + 1, Len(discoveries))
        ELSE <<>>

\* get_pattern_evolution
GetPatternEvolution(st) ==
    [timeline |-> Get(st, "discoveries", <<>>),
     strength |-> Get(st, "pattern_strengths", EmptyDict),
     emergence_events |-> GetPatternEvolutionSummary(st).emergence_events]

\* The mutable objects a caller holds once a query returned: each is an
\* object the call created (path <<>>) or an object of intelligence.state,
\* named by its path there.
\*
\* get_current_state builds a dict and a metrics dict of numbers.
ObjectsOfCurrentState(st) ==
    {[part |-> "result", path |-> <<>>], [part |-> "metrics", path |-> <<>>]}

\* discoveries[-limit:] is a new list of the row dicts of the log.
ObjectsOfRecentDiscoveries(st, limit) ==
    LET n == Len(GetRecentDiscoveries(st, limit))
    IN  {[part |-> "result", path |-> <<>>]}
        \cup {[part |-> "row", path |-> <<"discoveries", i>>] :
                  i \in (Len(st.discoveries) - n + 1)..Len(st.discoveries)}

\* get_pattern_evolution builds a dict around state.get("discoveries", []),
\* state.get("pattern_strengths", {}) and the event list of the summary.
ObjectsOfPatternEvolution(st) ==
    {[part |-> "result", path |-> <<>>],
     [part |-> "emergence_events", path |-> <<>>],
     [part |-> "timeline", path |-> <<"discoveries">>],
     [part |-> "strength", path |-> <<"pattern_strengths">>]}
    \cup {[part |-> "row", path |-> <<"discoveries", i>>] : i \in 1..Len(st.discoveries)}
    \cup {[part |-> "history", path |-> <<"pattern_strengths", k>>] :
              k \in 1..Len(st.pattern_strengths)}

\* The state after a caller wrote to the object at path: clear() on the log,
\* on the dict of histories or on one history, row["video"] = -1 on a row.
WriteThrough(st, path) ==
    CASE path = <<>> -> st
      [] path = <<"discoveries">> -> [st EXCEPT !.discoveries = <<>>]
      [] path = <<"pattern_strengths">> -> [st EXCEPT !.pattern_strengths = EmptyDict]
      [] Len(path) = 2 /\ path[1] = "discoveries" ->
             [st EXCEPT !.discoveries[path[2]].video = 0 - 1]
      [] Len(path) = 2 /\ path[1] = "pattern_strengths" ->
             [st EXCEPT !.pattern_strengths[path[2]].value = <<>>]

\* ---------------------------------------------------------------------------
\* Bundles a caller of update_intelligence hands over other than through
\* process_video.

BundleUntypedPattern ==
    [patterns |-> <<[type |-> TypeMicroTemporal, description |-> DescMicroTemporal,
                     strength |-> 90],
                    [description |-> DescCrossModal, strength |-> 50]>>,
     correlations |-> <<>>,
     unknown |-> <<>>]

BundleNoFeatureA ==
    [patterns |-> <<[type |-> TypeCrossModal]>>,
     correlations |-> <<[feature_b |-> FeatureB, correlation |-> 30]>>]

BundleNoCorrelationValue ==
    [correlations |-> <<[feature_a |-> FeatureA, feature_b |-> FeatureB]>>]

BundleSamePrefix ==
    [patterns |-> <<[type |-> TypeCrossModal,
                     description |-> Take(DescCrossModal, DescriptionLimit + 1),
                     strength |-> 90]>>,
     unknown |-> <<[type |-> "unknown"]>>]

DirectBundles ==
    {EmptyDict, BundleUntypedPattern, BundleNoFeatureA, BundleNoCorrelationValue,
     BundleSamePrefix}

\* Bundles of patterns named A, B and C: the histories A:[0.9], B:[0.5, 0.7],
\* C:[0.95, 0.95] come from the first two handed over in that order.
BundleThreePatterns ==
    [patterns |-> <<[type |-> <<"A">>, strength |-> 90],
                    [type |-> <<"B">>, strength |-> 50],
                    [type |-> <<"C">>, strength |-> 95]>>]

BundleTwoPatterns ==
    [patterns |-> <<[type |-> <<"B">>, strength |-> 70],
                    [type |-> <<"C">>, strength |-> 95]>>]

BundleEqualStrengths ==
    [patterns |-> <<[type |-> <<"B">>, strength |-> 90],
                    [type |-> <<"A">>, strength |-> 90]>>]

BundleAtThreshold ==
    [patterns |-> <<[type |-> <<"A">>, strength |-> EmergenceThreshold],
                    [type |-> <<"B">>, strength |-> EmergenceThreshold + 1]>>,
     unknown |-> <<[type |-> "unknown"]>>]

QueryBundles ==
    {EmptyDict, BundleThreePatterns, BundleTwoPatterns, BundleEqualStrengths,
     BundleAtThreshold}

\* The state that update_intelligence(bundles[1], 0), ...,
\* update_intelligence(bundles[n], n - 1) leave behind st.
RECURSIVE Accumulate(_, _, _)
Accumulate(st, bundles, n) ==
    IF n = 0
    THEN st
    ELSE UpdateIntelligence(Accumulate(st, bundles, n - 1), bundles[n], n - 1).state

\* The sequences of at most n bundles.
RECURSIVE BundleSequences(_)
BundleSequences(n) ==
    IF n = 0
    THEN {<<>>}
    ELSE LET shorter == BundleSequences(n - 1)
         IN  shorter \cup {Append(bundles, b) : bundles \in shorter, b \in QueryBundles}

\* The states of an engine that was handed at most MaxVideos bundles, in
\* order, and of one that was handed about MetaHistory empty ones.
AccumulatedStates ==
    {Accumulate(FreshState, bundles, Len(bundles)) : bundles \in BundleSequences(MaxVideos)}
    \cup {Accumulate(FreshState, [i \in 1..n |-> EmptyDict], n) :
              n \in (MetaHistory - 1)..(MetaHistory + 1)}

\* ---------------------------------------------------------------------------
\* State

VARIABLES
    engine,          \* "running": the module-level EmergentIntelligence() exists;
                     \* "failed": its constructor raised
    state,           \* intelligence.state
    checkpoint_dir,  \* the checkpoint store
    clock,           \* the time of the last call of save_checkpoint
    response,        \* what the last operation returned to its caller
    submitted,       \* history of the item indices handed to the engine: whether
                     \* each was at least the ones before it, and the highest
    loop,            \* the event loop of the service: the handler it is running,
                     \* with its position, and the requests that wait for it
    monitor,         \* the EmergenceMonitor of monitor_emergence.py: the position
                     \* of monitor_realtime and self.running
    coordinator      \* the EHSMASAgentCoordinator of python_go_bridge.py and the
                     \* phase it is coordinating

\* What runs beside the engine.
outside == <<loop, monitor, coordinator>>

vars == <<engine, state, checkpoint_dir, clock, response, submitted, loop, monitor, coordinator>>

\* The event loop with no handler running and no request waiting.
IdleLoop == [running |-> <<>>, ready |-> <<>>]

\* EmergenceMonitor(): self.running = True and _signal_handler installed for
\* SIGINT and SIGTERM; monitor_realtime not entered.
MonitorStart == [pc |-> "start", running |-> TRUE, refresh_rate |-> 0, slept |-> 0,
                 last |-> "none", shown |-> {}]

\* EHSMASAgentCoordinator(): no video (None is <<>>), no phase, no agent.
\* agent_registry holds the ids; level and capabilities of an agent reach
\* the message sent and nothing else.
CoordinatorStart == [current_video_id |-> <<>>, active_phase |-> <<>>,
                     agent_registry |-> {}]

\* The history after video_number is handed over (the highest index is not
\* followed any further once the order is broken).
Submit(video_number) ==
    IF submitted.ordered /\ video_number >= submitted.highest
    THEN [ordered |-> TRUE, highest |-> video_number]
    ELSE [ordered |-> FALSE, highest |-> 0]

\* features_extracted: extract_everything returns five modalities.
FeatureModalities == {"facial", "audio", "temporal", "cross_modal", "unknown"}

\* intelligence = EmergentIntelligence(), on an empty store.
Init ==
    /\ engine = "running"
    /\ state = FreshState
    /\ checkpoint_dir = EmptyStore
    /\ clock = 0
    /\ response = [op |-> "construct", raised |-> FALSE, checkpoint |-> <<>>]
    /\ submitted = [ordered |-> TRUE, highest |-> 0]
    /\ loop = IdleLoop
    /\ monitor = MonitorStart
    /\ coordinator = CoordinatorStart

\* The service is started again: intelligence = EmergentIntelligence().
Construct ==
    LET loaded == LoadOrInitializeState(checkpoint_dir.pkl)
    IN  /\ engine' = IF loaded.raised THEN "failed" ELSE "running"
        /\ state' = loaded.state
        /\ response' = [op |-> "construct", raised |-> loaded.raised,
                        checkpoint |-> FindLatestCheckpoint(checkpoint_dir.pkl)]
        /\ UNCHANGED <<checkpoint_dir, clock, submitted, outside>>

\* process_video running discovery once the count of videos has advanced.
ProcessVideoDiscoveringLate(video_number, draw, io) ==
    /\ engine = "running"
    /\ state.videos_processed < MaxVideos
    /\ clock < MaxSaves
    /\ LET discoveries == DiscoverPatterns(CountDiscoveries(state, <<>>, <<>>), draw, TRUE)
           updated == UpdateIntelligence(state, discoveries, video_number)
           saved == SaveCheckpoint(updated.state, checkpoint_dir, clock + 1,
                                   video_number, io)
       IN  /\ state' = updated.state
           /\ checkpoint_dir' = saved.store
           /\ clock' = clock + 1
           /\ response' = [op |-> "process_video", status |-> "ok",
                           video_number |-> video_number,
                           features_extracted |-> Cardinality(FeatureModalities),
                           patterns_discovered |-> discoveries.patterns,
                           correlations_found |-> discoveries.correlations,
                           unknown_signals |-> discoveries.unknown,
                           intelligence_updated |-> updated.ok,
                           checkpoint_saved |-> saved.ok]
           /\ submitted' = Submit(video_number)
    /\ UNCHANGED <<engine, outside>>

\* POST /process_video.  extract_everything and store_raw_features come
\* first: their features reach no discovery (the discovery functions draw
\* their own numbers) and store_raw_features writes to ./data/discoveries,
\* which nothing reads, so neither is part of the step.  The handlers are
\* coroutines that never yield before they return: a request is one step.
ProcessVideo(video_number, draw, io) ==
    /\ engine = "running"
    /\ state.videos_processed < MaxVideos
    /\ clock < MaxSaves
    /\ LET discoveries == DiscoverPatterns(state, draw, TRUE)
           updated == UpdateIntelligence(state, discoveries, video_number)
           saved == SaveCheckpoint(updated.state, checkpoint_dir, clock + 1,
                                   video_number, io)
       IN  /\ state' = updated.state
           /\ checkpoint_dir' = saved.store
           /\ clock' = clock + 1
           /\ response' =
                  IF saved.raised
                  THEN [op |-> "process_video", status |-> "error",
                        video_number |-> video_number]
                  ELSE [op |-> "process_video", status |-> "ok",
                        video_number |-> video_number,
                        features_extracted |-> Cardinality(FeatureModalities),
                        patterns_discovered |-> discoveries.patterns,
                        correlations_found |-> discoveries.correlations,
                        unknown_signals |-> discoveries.unknown,
                        intelligence_updated |-> updated.ok,
                        checkpoint_saved |-> saved.ok]
           /\ submitted' = Submit(video_number)
    /\ UNCHANGED <<engine, outside>>

\* process_video from the features on (lines 72 to 108): features is what the
\* extraction returned.  The extract_everything of the source is a stand-in
\* that returns all five modalities; the extraction that takes its place may
\* return fewer.  An exception of discover_patterns is answered with status
\* 500 before anything is merged or saved.
ProcessBundle(features, video_number, draw, io) ==
    /\ engine = "running"
    /\ state.videos_processed < MaxVideos
    /\ clock < MaxSaves
    /\ LET discovered == DiscoverPatternsFrom(features, state, draw, TRUE)
           discoveries == discovered.returned
           updated == UpdateIntelligence(state, discoveries, video_number)
           saved == SaveCheckpoint(updated.state, checkpoint_dir, clock + 1,
                                   video_number, io)
       IN  IF discovered.raised
           THEN /\ response' = [op |-> "process_bundle", status |-> "error",
                                video_number |-> video_number, features |-> features]
                /\ clock' = clock + 1
                /\ UNCHANGED <<state, checkpoint_dir, submitted>>
           ELSE /\ state' = updated.state
                /\ checkpoint_dir' = saved.store
                /\ clock' = clock + 1
                /\ response' = [op |-> "process_bundle", status |-> "ok",
                                video_number |-> video_number,
                                features |-> features,
                                features_extracted |-> Cardinality(DOMAIN features),
                                patterns_discovered |-> discoveries.patterns,
                                correlations_found |-> discoveries.correlations,
                                unknown_signals |-> discoveries.unknown,
                                intelligence_updated |-> updated.ok,
                                checkpoint_saved |-> saved.ok]
                /\ submitted' = Submit(video_number)
    /\ UNCHANGED <<engine, outside>>

\* intelligence.update_intelligence(discoveries, video_number), called directly.
UpdateIntelligenceCall(video_number, discoveries) ==
    /\ engine = "running"
    /\ state.videos_processed < MaxVideos
    /\ LET updated == UpdateIntelligence(state, discoveries, video_number)
       IN  /\ state' = updated.state
           /\ response' = [op |-> "update_intelligence",
                           video_number |-> video_number,
                           returned |-> updated.ok]
           /\ submitted' = Submit(video_number)
    /\ UNCHANGED <<engine, checkpoint_dir, clock, outside>>

\* create_checkpoint recording the index it saved under in
\* state["last_checkpoint"], the field get_current_state reads.
CreateCheckpointRecordingLast(io) ==
    /\ engine = "running"
    /\ clock < MaxSaves
    /\ LET video_number == state.videos_processed
           saved == SaveCheckpoint(state, checkpoint_dir, clock + 1, video_number, io)
       IN  /\ checkpoint_dir' = saved.store
           /\ clock' = clock + 1
           /\ state' = [field \in DOMAIN state \cup {"last_checkpoint"} |->
                            IF field = "last_checkpoint" THEN video_number ELSE state[field]]
           /\ response' = [op |-> "create_checkpoint", status |-> "ok",
                           success |-> TRUE, checkpoint_path |-> video_number,
                           save_returned |-> saved.ok]
    /\ UNCHANGED <<engine, submitted, outside>>

\* POST /intelligence/checkpoint: create_checkpoint drops the value
\* save_checkpoint returns, kept here as save_returned.
CreateCheckpoint(io) ==
    /\ engine = "running"
    /\ clock < MaxSaves
    /\ LET video_number == state.videos_processed
           saved == SaveCheckpoint(state, checkpoint_dir, clock + 1, video_number, io)
       IN  /\ checkpoint_dir' = saved.store
           /\ clock' = clock + 1
           /\ response' =
                  IF saved.raised
                  THEN [op |-> "create_checkpoint", status |-> "error"]
                  ELSE [op |-> "create_checkpoint", status |-> "ok",
                        success |-> TRUE, checkpoint_path |-> video_number,
                        save_returned |-> saved.ok]
    /\ UNCHANGED <<engine, state, submitted, outside>>

\* GET /intelligence/state
GetIntelligenceState ==
    /\ engine = "running"
    /\ response' = [op |-> "get_intelligence_state", status |-> "ok",
                    body |-> GetCurrentState(state)]
    /\ UNCHANGED <<engine, state, checkpoint_dir, clock, submitted, outside>>

\* GET /discoveries/recent?limit=
RecentDiscoveriesRequest(limit) ==
    /\ engine = "running"
    /\ LET discoveries == GetRecentDiscoveries(state, limit)
       IN  response' = [op |-> "get_recent_discoveries", status |-> "ok",
                        limit |-> limit,
                        count |-> Len(discoveries),
                        discoveries |-> discoveries]
    /\ UNCHANGED <<engine, state, checkpoint_dir, clock, submitted, outside>>

\* GET /patterns/evolution
PatternEvolutionRequest ==
    /\ engine = "running"
    /\ LET evolution == GetPatternEvolution(state)
       IN  response' = [op |-> "get_pattern_evolution", status |-> "ok",
                        evolution_timeline |-> evolution.timeline,
                        pattern_strength_over_time |-> evolution.strength,
                        emergence_events |-> evolution.emergence_events]
    /\ UNCHANGED <<engine, state, checkpoint_dir, clock, submitted, outside>>

\* intelligence._get_top_patterns(limit), called directly.
TopPatternsCall(limit) ==
    /\ engine = "running"
    /\ response' = [op |-> "get_top_patterns", limit |-> limit,
                    returned |-> GetTopPatterns(state, limit)]
    /\ UNCHANGED <<engine, state, checkpoint_dir, clock, submitted, outside>>

\* intelligence.discover_patterns(features, video_number,
\* use_previous_intelligence), called directly.
DiscoverPatternsCall(draw, use_previous_intelligence) ==
    /\ engine = "running"
    /\ response' = [op |-> "discover_patterns",
                    use_previous_intelligence |-> use_previous_intelligence,
                    draw |-> draw,
                    videos_processed |-> state.videos_processed,
                    returned |-> DiscoverPatterns(state, draw, use_previous_intelligence)]
    /\ UNCHANGED <<engine, state, checkpoint_dir, clock, submitted, outside>>

\* intelligence.get_current_state(), get_recent_discoveries(limit) and
\* get_pattern_evolution() called directly: the caller holds the objects
\* returned, not their JSON.
GetCurrentStateCall ==
    /\ engine = "running"
    /\ response' = [op |-> "get_current_state",
                    returned |-> GetCurrentState(state),
                    objects |-> ObjectsOfCurrentState(state)]
    /\ UNCHANGED <<engine, state, checkpoint_dir, clock, submitted, outside>>

GetRecentDiscoveriesCall(limit) ==
    /\ engine = "running"
    /\ response' = [op |-> "get_recent_discoveries",
                    returned |-> GetRecentDiscoveries(state, limit),
                    objects |-> ObjectsOfRecentDiscoveries(state, limit)]
    /\ UNCHANGED <<engine, state, checkpoint_dir, clock, submitted, outside>>

GetPatternEvolutionCall ==
    /\ engine = "running"
    /\ response' = [op |-> "get_pattern_evolution",
                    returned |-> GetPatternEvolution(state),
                    objects |-> ObjectsOfPatternEvolution(state)]
    /\ UNCHANGED <<engine, state, checkpoint_dir, clock, submitted, outside>>

\* The objects the caller holds: those the last query returned.
ObjectsHeld == Get(response, "objects", {})

\* The caller writes to one of the objects it holds.
CallerWrites(object) ==
    /\ engine = "running"
    /\ object \in ObjectsHeld
    /\ state' = WriteThrough(state, object.path)
    /\ response' = [op |-> "caller_write", returned_by |-> response.op,
                    part |-> object.part]
    /\ UNCHANGED <<engine, checkpoint_dir, clock, submitted, outside>>

\* ---------------------------------------------------------------------------
\* The event loop of the service.  Every handler of ml_connector.py is an
\* async def that the loop runs as one task; a task gives the loop back only
\* where it awaits something that suspends.  Here process_video is taken
\* apart into the parts of update_intelligence, so that a query served in
\* between would see a state the merge has half written.

\* The limit of GET /discoveries/recent when the request names none.
DefaultLimit == 10

\* The requests that wait for the loop: at most MaxWaiting at a time.
MaxWaiting == 1

\* The read-only requests of the interface.
QueryRequests == {"get_intelligence_state", "get_recent_discoveries",
                  "get_pattern_evolution"}

\* update_intelligence giving the loop back between its parts.
SuspendsInMerge(pc) == pc \in {"patterns", "correlations", "log"}

\* Whether the running handler gives the loop back at position pc.  The
\* body of update_intelligence holds no await, and the coroutines that
\* process_video awaits (extract_everything, store_raw_features,
\* discover_patterns, update_intelligence, save_checkpoint) await nothing
\* themselves: none suspends.
Suspends(pc) == FALSE

\* The handler the loop is running.
Running == loop.running[1]

\* The loop takes up a POST /process_video: lines 62 to 83, up to the call
\* of update_intelligence.
StartProcessVideo(video_number, draw) ==
    /\ engine = "running"
    /\ loop.running = <<>>
    /\ state.videos_processed < MaxVideos
    /\ clock < MaxSaves
    /\ loop' = [loop EXCEPT !.running =
                   <<[op |-> "process_video", pc |-> "counters",
                      video_number |-> video_number,
                      discoveries |-> DiscoverPatterns(state, draw, TRUE),
                      before |-> state, updated |-> TRUE]>>]
    /\ submitted' = Submit(video_number)
    /\ UNCHANGED <<engine, state, checkpoint_dir, clock, response, monitor, coordinator>>

\* update_intelligence, lines 268 to 270: the three counters.
MergeCounters ==
    /\ loop.running # <<>>
    /\ Running.pc = "counters"
    /\ state' = CountDiscoveries(state, Get(Running.discoveries, "patterns", <<>>),
                                 Get(Running.discoveries, "correlations", <<>>))
    /\ loop' = [loop EXCEPT !.running[1].pc = "patterns"]
    /\ UNCHANGED <<engine, checkpoint_dir, clock, response, submitted, monitor, coordinator>>

\* update_intelligence, lines 273 to 280: the pattern histories.
MergePatterns ==
    /\ loop.running # <<>>
    /\ Running.pc = "patterns"
    /\ LET tracked == TrackPatterns(state.pattern_strengths,
                                    Get(Running.discoveries, "patterns", <<>>),
                                    Running.video_number, 1)
       IN  /\ state' = [state EXCEPT !.pattern_strengths = tracked.value]
           /\ loop' = [loop EXCEPT
                          !.running[1].pc = IF tracked.raised THEN "save" ELSE "correlations",
                          !.running[1].updated = ~tracked.raised]
    /\ UNCHANGED <<engine, checkpoint_dir, clock, response, submitted, monitor, coordinator>>

\* update_intelligence, lines 283 to 290: the correlation histories.
MergeCorrelations ==
    /\ loop.running # <<>>
    /\ Running.pc = "correlations"
    /\ LET correlated == UpdateCorrelations(state.correlation_matrix,
                                            Get(Running.discoveries, "correlations", <<>>),
                                            Running.video_number, 1)
       IN  /\ state' = [state EXCEPT !.correlation_matrix = correlated.value]
           /\ loop' = [loop EXCEPT
                          !.running[1].pc = IF correlated.raised THEN "save" ELSE "log",
                          !.running[1].updated = ~correlated.raised]
    /\ UNCHANGED <<engine, checkpoint_dir, clock, response, submitted, monitor, coordinator>>

\* update_intelligence, lines 293 to 299: the row of the log.
MergeLog ==
    /\ loop.running # <<>>
    /\ Running.pc = "log"
    /\ state' = [state EXCEPT !.discoveries =
                    Append(@, DiscoveryRow(Running.discoveries, Running.video_number))]
    /\ loop' = [loop EXCEPT !.running[1].pc = "save"]
    /\ UNCHANGED <<engine, checkpoint_dir, clock, response, submitted, monitor, coordinator>>

\* process_video, lines 91 to 108: save_checkpoint and the response.  The
\* task ends and the loop is free.
SaveAndRespond(io) ==
    /\ loop.running # <<>>
    /\ Running.pc = "save"
    /\ LET saved == SaveCheckpoint(state, checkpoint_dir, clock + 1,
                                   Running.video_number, io)
       IN  /\ checkpoint_dir' = saved.store
           /\ clock' = clock + 1
           /\ response' =
                  IF saved.raised
                  THEN [op |-> "process_video", status |-> "error",
                        video_number |-> Running.video_number]
                  ELSE [op |-> "process_video", status |-> "ok",
                        video_number |-> Running.video_number,
                        features_extracted |-> Cardinality(FeatureModalities),
                        patterns_discovered |-> Running.discoveries.patterns,
                        correlations_found |-> Running.discoveries.correlations,
                        unknown_signals |-> Running.discoveries.unknown,
                        intelligence_updated |-> Running.updated,
                        checkpoint_saved |-> saved.ok]
    /\ loop' = [loop EXCEPT !.running = <<>>]
    /\ UNCHANGED <<engine, state, submitted, monitor, coordinator>>

\* The positions of a handler inside update_intelligence, the counters
\* advanced and the log row not yet appended.
InsideMerge == {"patterns", "correlations", "log"}

\* A read-only request reaches the service; it waits until the loop takes
\* it up.  during_merge: it came while the running handler stood inside
\* update_intelligence.
QueryArrives(op) ==
    /\ engine = "running"
    /\ Len(loop.ready) < MaxWaiting
    /\ loop' = [loop EXCEPT !.ready =
                   Append(@, [op |-> op,
                              during_merge |-> /\ loop.running # <<>>
                                               /\ Running.pc \in InsideMerge])]
    /\ UNCHANGED <<engine, state, checkpoint_dir, clock, response, submitted,
                   monitor, coordinator>>

\* The loop runs the handler of the request that waited longest: it can
\* when no handler is running or the running one is suspended.
ServeQuery ==
    /\ loop.ready # <<>>
    /\ IF loop.running = <<>> THEN TRUE ELSE Suspends(Running.pc)
    /\ LET request == Head(loop.ready)
           discoveries == GetRecentDiscoveries(state, DefaultLimit)
           evolution == GetPatternEvolution(state)
       IN  response' =
               IF request.op = "get_intelligence_state"
               THEN [op |-> request.op, status |-> "ok", during_merge |-> request.during_merge,
                     body |-> GetCurrentState(state)]
               ELSE IF request.op = "get_recent_discoveries"
               THEN [op |-> request.op, status |-> "ok", during_merge |-> request.during_merge,
                     limit |-> DefaultLimit, count |-> Len(discoveries),
                     discoveries |-> discoveries]
               ELSE [op |-> request.op, status |-> "ok", during_merge |-> request.during_merge,
                     evolution_timeline |-> evolution.timeline,
                     pattern_strength_over_time |-> evolution.strength,
                     emergence_events |-> evolution.emergence_events]
    /\ loop' = [loop EXCEPT !.ready = Tail(@)]
    /\ UNCHANGED <<engine, state, checkpoint_dir, clock, submitted, monitor, coordinator>>

\* ---------------------------------------------------------------------------
\* monitor_emergence.py: EmergenceMonitor.monitor_realtime polling a service.

\* --refresh: the default of refresh_rate, and a shorter one.
RefreshRates == {1, 5}

\* The three requests of one iteration, in the order of the loop body.
MonitorRequests == <<"get_state", "get_discoveries", "get_evolution">>

\* What requests.get(url, timeout=5) does: it returns a response with status
\* 200 or another status, or it raises ConnectionError or Timeout, both
\* subclasses of requests.RequestException.
RequestOutcomes == {"ok", "not_ok", "connection_error", "timeout"}

RequestErrors == {"connection_error", "timeout"}

\* The position after the request at position pc returned.
AfterRequest(pc) ==
    IF pc = "get_state" THEN "get_discoveries"
    ELSE IF pc = "get_discoveries" THEN "get_evolution"
    ELSE "sleep"

\* The backoff being one refresh interval.
BackoffOfOneRefresh(refresh_rate) == refresh_rate

\* await asyncio.sleep(refresh_rate * 2) of the except branch.
Backoff(refresh_rate) == refresh_rate * 2

\* monitor_realtime(refresh_rate) is entered: the banner, lines 41 to 46.
MonitorRealtime(refresh_rate) ==
    /\ monitor.pc = "start"
    /\ monitor' = [monitor EXCEPT !.pc = "while", !.refresh_rate = refresh_rate]
    /\ UNCHANGED <<engine, state, checkpoint_dir, clock, response, submitted,
                   loop, coordinator>>

\* while self.running:
TestRunning ==
    /\ monitor.pc = "while"
    /\ monitor' = [monitor EXCEPT !.pc = IF monitor.running THEN "get_state" ELSE "returned",
                                  !.shown = {}]
    /\ UNCHANGED <<engine, state, checkpoint_dir, clock, response, submitted,
                   loop, coordinator>>

\* A request whose error ends monitor_realtime.
RequestFatalOnError(outcome) ==
    /\ monitor.pc \in {MonitorRequests[i] : i \in 1..Len(MonitorRequests)}
    /\ monitor' = [monitor EXCEPT
                      !.last = outcome,
                      !.pc = IF outcome \in RequestErrors THEN "returned"
                             ELSE AfterRequest(monitor.pc),
                      !.shown = IF outcome = "ok" THEN @ \cup {monitor.pc} ELSE @]
    /\ UNCHANGED <<engine, state, checkpoint_dir, clock, response, submitted,
                   loop, coordinator>>

\* One of the three requests.get of the loop body, lines 51 to 66.  On
\* status 200 the body is displayed; the display functions read the body of
\* the service with dict.get and defaults and raise nothing.  Another status
\* is passed over.  A RequestException leads to the except branch of line 70.
Request(outcome) ==
    /\ monitor.pc \in {MonitorRequests[i] : i \in 1..Len(MonitorRequests)}
    /\ monitor' = [monitor EXCEPT
                      !.last = outcome,
                      !.pc = IF outcome \in RequestErrors THEN "backoff"
                             ELSE AfterRequest(monitor.pc),
                      !.shown = IF outcome = "ok" THEN @ \cup {monitor.pc} ELSE @]
    /\ UNCHANGED <<engine, state, checkpoint_dir, clock, response, submitted,
                   loop, coordinator>>

\* await asyncio.sleep(refresh_rate), line 68.
Sleep ==
    /\ monitor.pc = "sleep"
    /\ monitor' = [monitor EXCEPT !.pc = "while", !.slept = monitor.refresh_rate]
    /\ UNCHANGED <<engine, state, checkpoint_dir, clock, response, submitted,
                   loop, coordinator>>

\* The except branch of lines 70 to 72: the message and the backoff.
SleepBackoff ==
    /\ monitor.pc = "backoff"
    /\ monitor' = [monitor EXCEPT !.pc = "while",
                                  !.slept = Backoff(monitor.refresh_rate)]
    /\ UNCHANGED <<engine, state, checkpoint_dir, clock, response, submitted,
                   loop, coordinator>>

\* _signal_handler, on SIGINT or SIGTERM, at any position of the monitor.
\* It stands in the place of Python's handler of SIGINT, so that Ctrl+C
\* raises no KeyboardInterrupt in monitor_realtime: the branch of line 73
\* is never taken.
SignalHandler ==
    /\ monitor.pc # "returned"
    /\ monitor.running
    /\ monitor' = [monitor EXCEPT !.running = FALSE]
    /\ UNCHANGED <<engine, state, checkpoint_dir, clock, response, submitted,
                   loop, coordinator>>

\* ---------------------------------------------------------------------------
\* python_go_bridge.py: EHSMASBridge.coordinate_agent and the phases of
\* EHSMASAgentCoordinator.

\* The fields coordinate_agent reads from the body of a 200 response.
ResponseFields == {"status", "response_data", "next_actions", "agent_assignments",
                   "correlation_id", "timestamp"}

\* A body of the Go coordinator that holds every field.
CompleteBody ==
    [status |-> "OK", response_data |-> "assigned", next_actions |-> <<"proceed">>,
     agent_assignments |-> "assignments", correlation_id |-> "of_the_coordinator",
     timestamp |-> 0]

\* The body with one field left out.
BodyWithout(field) == [f \in ResponseFields \ {field} |-> CompleteBody[f]]

\* What requests.post(url, json=request_data, timeout=30) does: it raises
\* (raises names the exception) or returns a response with a status code
\* and a body; json is <<>> when the body is no JSON.
Replies ==
    { [raises |-> "ConnectionError", status_code |-> 0, json |-> <<>>],
      [raises |-> "Timeout", status_code |-> 0, json |-> <<>>],
      [raises |-> "", status_code |-> 500, json |-> <<>>],
      [raises |-> "", status_code |-> 200, json |-> <<>>],
      [raises |-> "", status_code |-> 200, json |-> <<CompleteBody>>],
      [raises |-> "", status_code |-> 200, json |-> <<BodyWithout("next_actions")>>],
      [raises |-> "", status_code |-> 200, json |-> <<BodyWithout("correlation_id")>>] }

\* The try block of coordinate_agent, lines 60 to 92: the exception that
\* ended it, or the response it returned.
TryCoordinate(request, reply) ==
    IF reply.raises # ""
    THEN [raised |-> TRUE, exception |-> reply.raises]
    ELSE IF reply.status_code # 200
    THEN [raised |-> TRUE, exception |-> "Coordination failed"]
    ELSE IF reply.json = <<>>
    THEN [raised |-> TRUE, exception |-> "JSONDecodeError"]
    ELSE LET response_data == reply.json[1]
         IN  IF ResponseFields \subseteq DOMAIN response_data
             THEN [raised |-> FALSE,
                   value |-> [status |-> response_data.status,
                              response_data |-> response_data.response_data,
                              next_actions |-> response_data.next_actions,
                              agent_assignments |-> response_data.agent_assignments,
                              correlation_id |-> response_data.correlation_id]]
             ELSE [raised |-> TRUE, exception |-> "KeyError"]

\* The fallback response of the except branch, lines 97 to 104 (timestamp
\* left out).
FallbackResponse(request, exception) ==
    [status |-> "ERROR", response_data |-> [error |-> exception],
     next_actions |-> <<>>, agent_assignments |-> EmptyDict,
     correlation_id |-> request.correlation_id]

\* coordinate_agent catching the exceptions of requests alone.
CoordinateAgentCatchingRequestErrors(request, reply) ==
    LET tried == TryCoordinate(request, reply)
    IN  IF ~tried.raised
        THEN [raised |-> FALSE, value |-> tried.value]
        ELSE IF tried.exception \in {"ConnectionError", "Timeout"}
        THEN [raised |-> FALSE, value |-> FallbackResponse(request, tried.exception)]
        ELSE [raised |-> TRUE, value |-> tried.exception]

\* coordinate_agent(request): whether it raised, and what it returned.
\* `except Exception` takes every exception of the try block.
CoordinateAgent(request, reply) ==
    LET tried == TryCoordinate(request, reply)
    IN  IF tried.raised
        THEN [raised |-> FALSE, value |-> FallbackResponse(request, tried.exception)]
        ELSE [raised |-> FALSE, value |-> tried.value]

\* f"{self.current_video_id}_{phase}_{int(time.time())}" (the time left out).
CorrelationId(video_id, phase) == <<video_id, phase>>

\* The requests coordinate_phase builds, lines 163 to 177: one for each
\* participating agent that is registered, in the order of the list.
PhaseRequests(registry, video_id, phase, participating_agents) ==
    LET Registered(agent_id) == agent_id \in registry
        agents == SelectSeq(participating_agents, Registered)
    IN  [i \in 1..Len(agents) |->
            [video_id |-> video_id, phase |-> phase, agent_id |-> agents[i],
             correlation_id |-> CorrelationId(video_id, phase)]]

\* asyncio.gather(*coordination_tasks, return_exceptions=True) and the loop
\* of lines 184 to 190: the responses of the tasks that raised nothing.
SuccessfulResponses(requests, replies) ==
    LET Returned(result) == ~result.raised
        responses == SelectSeq([i \in 1..Len(requests) |->
                                   CoordinateAgent(requests[i], replies[i])], Returned)
    IN  [i \in 1..Len(responses) |-> responses[i].value]

VideoIds == {"video_001", "video_002"}

AgentIds == {"VideoIngestionSpecialist", "PatternValidationAgent", "ConsensusOrchestrator"}

\* The phases coordinated with a fixed list of agents (lines 153 and 222).
PhaseAgents ==
    [VIDEO_INTAKE |-> <<"VideoIngestionSpecialist">>,
     QUALITY_ASSURANCE |-> <<"PatternValidationAgent", "ConsensusOrchestrator">>]

\* register_agent(agent_id, agent_level, capabilities)
RegisterAgent(agent_id) ==
    /\ agent_id \notin coordinator.agent_registry
    /\ coordinator' = [coordinator EXCEPT !.agent_registry = @ \cup {agent_id}]
    /\ response' = [op |-> "register_agent", agent_id |-> agent_id]
    /\ UNCHANGED <<engine, state, checkpoint_dir, clock, submitted, loop, monitor>>

\* start_video_processing(video_id): coordinate_phase("VIDEO_INTAKE",
\* ["VideoIngestionSpecialist"]) on the new video.
StartVideoProcessing(video_id) ==
    LET requests == PhaseRequests(coordinator.agent_registry, video_id, "VIDEO_INTAKE",
                                  PhaseAgents.VIDEO_INTAKE)
    IN  \E replies \in [1..Len(requests) -> Replies] :
            /\ coordinator' = [coordinator EXCEPT !.current_video_id = <<video_id>>,
                                                  !.active_phase = <<"VIDEO_INTAKE">>]
            /\ response' = [op |-> "start_video_processing", raised |-> FALSE,
                            requests |-> requests, replies |-> replies,
                            returned |-> SuccessfulResponses(requests, replies)]
            /\ UNCHANGED <<engine, state, checkpoint_dir, clock, submitted, loop, monitor>>

\* coordinate_phase(phase, participating_agents) on the current video.
CoordinatePhase(phase) ==
    /\ coordinator.current_video_id # <<>>
    /\ LET requests == PhaseRequests(coordinator.agent_registry,
                                     coordinator.current_video_id[1], phase,
                                     PhaseAgents[phase])
       IN  \E replies \in [1..Len(requests) -> Replies] :
               /\ coordinator' = [coordinator EXCEPT !.active_phase = <<phase>>]
               /\ response' = [op |-> "coordinate_phase", raised |-> FALSE,
                               requests |-> requests, replies |-> replies,
                               returned |-> SuccessfulResponses(requests, replies)]
    /\ UNCHANGED <<engine, state, checkpoint_dir, clock, submitted, loop, monitor>>

\* bridge.coordinate_agent(request), called directly.
CoordinateAgentCall(request, reply) ==
    /\ LET result == CoordinateAgent(request, reply)
       IN  response' = [op |-> "coordinate_agent", request |-> request, reply |-> reply,
                        raised |-> result.raised, value |-> result.value]
    /\ UNCHANGED <<engine, state, checkpoint_dir, clock, submitted, loop, monitor,
                   coordinator>>

\* The service of ml_connector.py: the engine is reached through the request
\* handlers alone.
NextService ==
    \/ Construct
    \/ \E video_number \in 0..MaxIndex, draw \in Draws, io \in SaveOutcomes :
           ProcessVideo(video_number, draw, io)
    \/ \E io \in SaveOutcomes : CreateCheckpoint(io)
    \/ GetIntelligenceState

SpecService == Init /\ [][NextService]_vars

\* The engine used as a library as well: update_intelligence is called with
\* bundles of the caller's making.
Next ==
    \/ NextService
    \/ \E video_number \in 0..MaxIndex, discoveries \in DirectBundles :
           UpdateIntelligenceCall(video_number, discoveries)

Spec == Init /\ [][Next]_vars

\* The merge on its own: update_intelligence calls and the state query, with
\* no checkpoint written or loaded.
NextMerge ==
    \/ \E video_number \in 0..MaxIndex, discoveries \in DirectBundles :
           UpdateIntelligenceCall(video_number, discoveries)
    \/ GetIntelligenceState

SpecMerge == Init /\ [][NextMerge]_vars

\* The read side: an engine that accumulated some state answers queries,
\* runs discovery and writes manual checkpoints.
InitQuery ==
    /\ engine = "running"
    /\ state \in AccumulatedStates
    /\ checkpoint_dir = EmptyStore
    /\ clock = 0
    /\ response = [op |-> "construct", raised |-> FALSE, checkpoint |-> <<>>]
    /\ submitted = [ordered |-> TRUE, highest |-> Max(0, state.videos_processed - 1)]
    /\ loop = IdleLoop
    /\ monitor = MonitorStart
    /\ coordinator = CoordinatorStart

NextQuery ==
    \/ \E limit \in (0 - 1)..MaxLimit : RecentDiscoveriesRequest(limit)
    \/ PatternEvolutionRequest
    \/ \E limit \in 0..MaxLimit : TopPatternsCall(limit)
    \/ \E draw \in Draws, use_previous_intelligence \in BOOLEAN :
           DiscoverPatternsCall(draw, use_previous_intelligence)
    \/ GetIntelligenceState
    \/ \E io \in SaveOutcomes : CreateCheckpoint(io)

SpecQuery == InitQuery /\ [][NextQuery]_vars

\* The pipeline fed with complete and incomplete feature bundles.
NextBundle ==
    \/ \E features \in FeatureBundles, video_number \in 0..MaxIndex, draw \in Draws,
          io \in SaveOutcomes :
           ProcessBundle(features, video_number, draw, io)
    \/ GetIntelligenceState

SpecBundle == Init /\ [][NextBundle]_vars

\* The engine queried in process: a caller holds what the queries return
\* and writes to it.
NextCaller ==
    \/ GetCurrentStateCall
    \/ \E limit \in 0..MaxLimit : GetRecentDiscoveriesCall(limit)
    \/ GetPatternEvolutionCall
    \/ \E part \in {"result", "metrics", "emergence_events", "timeline", "strength",
                     "row", "history"} :
           \E object \in {o \in ObjectsHeld : o.part = part} : CallerWrites(object)

SpecCaller == InitQuery /\ [][NextCaller]_vars

\* The service seen from its event loop: process_video in the parts of its
\* merge, and the read-only requests.
NextLoop ==
    \/ \E video_number \in 0..MaxIndex, draw \in Draws :
           StartProcessVideo(video_number, draw)
    \/ MergeCounters
    \/ MergePatterns
    \/ MergeCorrelations
    \/ MergeLog
    \/ \E io \in {"saved", "pkl_open_fails"} : SaveAndRespond(io)
    \/ \E op \in QueryRequests : QueryArrives(op)
    \/ ServeQuery

SpecLoop == Init /\ [][NextLoop]_vars

\* The steps of monitor_realtime itself.
MonitorSteps ==
    \/ \E refresh_rate \in RefreshRates : MonitorRealtime(refresh_rate)
    \/ TestRunning
    \/ \E outcome \in RequestOutcomes : Request(outcome)
    \/ Sleep
    \/ SleepBackoff

\* The monitor beside a service that has processed some videos.
NextMonitor ==
    \/ MonitorSteps
    \/ SignalHandler

SpecMonitor == InitQuery /\ [][NextMonitor]_vars

\* The process of the monitor keeps running: requests.get returns or raises
\* within its timeout and every sleep ends.
SpecMonitorLive == SpecMonitor /\ WF_vars(MonitorSteps)

\* The coordinator of python_go_bridge.py and its bridge.
NextBridge ==
    \/ \E agent_id \in AgentIds : RegisterAgent(agent_id)
    \/ \E video_id \in VideoIds : StartVideoProcessing(video_id)
    \/ \E phase \in DOMAIN PhaseAgents : CoordinatePhase(phase)
    \/ \E agent_id \in AgentIds, phase \in DOMAIN PhaseAgents, reply \in Replies :
           CoordinateAgentCall([video_id |-> "video_001", phase |-> phase,
                                agent_id |-> agent_id,
                                correlation_id |-> CorrelationId("video_001", phase)],
                               reply)

SpecBridge == Init /\ [][NextBridge]_vars

\* ---------------------------------------------------------------------------
\* Properties

\* The item indices of a history or of the discovery log.
Videos(history) == [i \in 1..Len(history) |-> history[i].video]

NonDecreasing(seq) == \A i \in 1..Len(seq) : \A j \in i..Len(seq) : seq[i] <= seq[j]

HistoriesInOrder(st) ==
    /\ \A i \in 1..Len(st.pattern_strengths) :
           NonDecreasing(Videos(st.pattern_strengths[i].value))
    /\ \A i \in 1..Len(st.correlation_matrix) :
           NonDecreasing(Videos(st.correlation_matrix[i].value))

\* The state is the one items 0, 1, ... handed over in that order leave.
ItemsInOrder(st) ==
    /\ st.videos_processed = Len(st.discoveries)
    /\ \A i \in 1..Len(st.discoveries) : st.discoveries[i].video = i - 1

\* The last operation was a process_video request answered without an error.
Processed == response.op = "process_video" /\ response.status = "ok"

\* The last operation called save_checkpoint, which returned True.
SavedNow ==
    \/ Processed /\ response.checkpoint_saved
    \/ /\ response.op = "create_checkpoint"
       /\ response.status = "ok"
       /\ response.save_returned

\* The pkl file of the latest modification time cannot be unpickled.
LatestUnreadable ==
    \E n \in DOMAIN checkpoint_dir.pkl :
        /\ \A m \in DOMAIN checkpoint_dir.pkl :
               checkpoint_dir.pkl[m].mtime <= checkpoint_dir.pkl[n].mtime
        /\ checkpoint_dir.pkl[n].content = <<>>

\* C1: every process call whose merge returns true adds exactly 1 to
\* videos_processed and leaves it equal to the length of the discovery log.
C1_CountFollowsLog ==
    [][(/\ response'.op = "process_video"
        /\ response'.status = "ok"
        /\ response'.intelligence_updated)
       => /\ state'.videos_processed = state.videos_processed + 1
          /\ state'.videos_processed = Len(state'.discoveries)]_vars

C1_Witness ==
    /\ Processed
    /\ response.intelligence_updated
    /\ state.videos_processed = 2
    /\ Len(state.discoveries) = 2

\* C2: an update_intelligence call that returns false leaves every field of
\* the accumulated state as it was before the call.
C2_FailedUpdateChangesNothing ==
    [][(response'.op = "update_intelligence" /\ ~response'.returned)
       => state' = state]_vars

\* C3: right after a save that returned true, a fresh engine loading from the
\* store reports the snapshot the saving engine reports.
C3_ResumeIdempotence ==
    SavedNow =>
        LET loaded == LoadOrInitializeState(checkpoint_dir.pkl)
        IN  /\ ~loaded.raised
            /\ GetCurrentState(loaded.state) = GetCurrentState(state)

C3_Witness ==
    /\ SavedNow
    /\ state.videos_processed = 2
    /\ Cardinality(DOMAIN checkpoint_dir.pkl) = 2

\* C4: the checkpoint stored under index n holds the state of n + 1 items
\* processed, for the states that items handed over in order leave.
C4_CheckpointHoldsItemsUpToIndex ==
    \A n \in DOMAIN checkpoint_dir.pkl :
        LET content == checkpoint_dir.pkl[n].content
        IN  (content # <<>> /\ ItemsInOrder(content[1]))
                => content[1].videos_processed = n + 1

\* C5: a snapshot written under an index is not changed by a later save, in
\* any sequence of process and create_checkpoint calls that hands the items
\* over in order.
C5_WriteOnce ==
    [][(/\ response'.op \in {"process_video", "create_checkpoint"}
        /\ ItemsInOrder(state'))
       => \A n \in DOMAIN checkpoint_dir.pkl :
              checkpoint_dir.pkl[n].content # <<>>
                  => checkpoint_dir'.pkl[n].content = checkpoint_dir.pkl[n].content]_vars

\* C6 as claimed: constructed on a non-empty store, the engine resumes from
\* the snapshot of the greatest item index.
C6_ResumesFromGreatestIndex ==
    (response.op = "construct" /\ DOMAIN checkpoint_dir.pkl # {})
        => /\ response.checkpoint # <<>>
           /\ \A m \in DOMAIN checkpoint_dir.pkl : m <= response.checkpoint[1]

\* C6 as amended: constructed on a non-empty store, the engine resumes from
\* the snapshot written last, whatever its index: it holds that snapshot's
\* state, or its construction failed because that snapshot cannot be read.
C6_ResumesFromLatestWrite ==
    (response.op = "construct" /\ DOMAIN checkpoint_dir.pkl # {})
        => \E n \in DOMAIN checkpoint_dir.pkl :
               /\ response.checkpoint = <<n>>
               /\ \A m \in DOMAIN checkpoint_dir.pkl :
                      checkpoint_dir.pkl[m].mtime <= checkpoint_dir.pkl[n].mtime
               /\ IF checkpoint_dir.pkl[n].content = <<>>
                  THEN engine = "failed"
                  ELSE engine = "running" /\ state = checkpoint_dir.pkl[n].content[1]

C6_Witness ==
    /\ response.op = "construct"
    /\ engine = "running"
    /\ Cardinality(DOMAIN checkpoint_dir.pkl) = 2
    /\ \E m \in DOMAIN checkpoint_dir.pkl : m > response.checkpoint[1]

\* C7: a construction that finds the checkpoint it loads unreadable fails, and
\* an engine whose construction failed serves no request: the last operation
\* of a failed engine is the construction that raised.
C7_UnreadableCheckpointStopsEngine ==
    /\ (response.op = "construct" /\ LatestUnreadable) => engine = "failed"
    /\ engine = "failed" => (response.op = "construct" /\ response.raised)

C7_Witness ==
    /\ engine = "failed"
    /\ LatestUnreadable
    /\ Cardinality(DOMAIN checkpoint_dir.pkl) = 2

\* The process_video step wrote both artifacts of video_number in full.
BothArtifactsWritten(video_number) ==
    /\ video_number \in DOMAIN checkpoint_dir'.pkl
    /\ checkpoint_dir'.pkl[video_number] = [content |-> <<state'>>, mtime |-> clock']
    /\ video_number \in DOMAIN checkpoint_dir'.json
    /\ checkpoint_dir'.json[video_number] = <<ReadableState(state')>>

\* C8: a process call whose save does not write both artifacts is answered
\* without an error, with checkpoint_saved false, and its merge is in the
\* state: one more video processed and the row of this call last in the log.
C8_FailedSaveKeepsMerge ==
    [][(response'.op = "process_video" /\ ~BothArtifactsWritten(response'.video_number))
       => /\ response'.status = "ok"
          /\ ~response'.checkpoint_saved
          /\ response'.intelligence_updated
          /\ state'.videos_processed = state.videos_processed + 1
          /\ state'.discoveries =
                 Append(state.discoveries,
                        [video |-> response'.video_number,
                         patterns_found |-> Len(response'.patterns_discovered),
                         correlations_found |-> Len(response'.correlations_found),
                         unknown_signals |-> Len(response'.unknown_signals)])]_vars

C8_Witness ==
    /\ Processed
    /\ ~response.checkpoint_saved
    /\ response.intelligence_updated
    /\ state.videos_processed = 2
    /\ response.video_number \notin DOMAIN checkpoint_dir.pkl

\* C9 as claimed: in every state the item indices of every history are
\* non-decreasing.
C9_HistoriesAlwaysInOrder == engine = "running" => HistoriesInOrder(state)

\* C9 as amended: the item indices of every history are non-decreasing as
\* long as the indices handed to the engine were.
C9_HistoriesInOrderOfSubmission ==
    (engine = "running" /\ submitted.ordered) => HistoriesInOrder(state)

C9_Witness ==
    /\ submitted.ordered
    /\ \E i \in 1..Len(state.pattern_strengths) :
           Videos(state.pattern_strengths[i].value) = <<0, 1>>

\* C10: a process call whose index is not the number of videos processed is
\* merged and checkpointed like any other: no error, intelligence_updated
\* true, one more video processed, its row last in the log, and the snapshot
\* of the new state under its index when the save succeeds.
C10_OutOfOrderIndexAccepted ==
    [][(/\ response'.op = "process_video"
        /\ response'.video_number # state.videos_processed)
       => /\ response'.status = "ok"
          /\ response'.intelligence_updated
          /\ state'.videos_processed = state.videos_processed + 1
          /\ Len(state'.discoveries) = Len(state.discoveries) + 1
          /\ state'.discoveries[Len(state'.discoveries)].video = response'.video_number
          /\ response'.checkpoint_saved
                 => checkpoint_dir'.pkl[response'.video_number].content = <<state'>>]_vars

C10_Witness ==
    /\ Processed
    /\ response.intelligence_updated
    /\ response.checkpoint_saved
    /\ response.video_number = 0
    /\ state.videos_processed = 2
    /\ Videos(state.discoveries) = <<1, 0>>

\* The code points of the characters of the keys of QueryBundles.
CodePoint(c) ==
    CASE c = "A" -> 65
      [] c = "B" -> 66
      [] c = "C" -> 67
      [] c = "_" -> 95

\* a < b for Python strings: the shorter of a prefix pair, or the smaller
\* code point where they first differ.
LexLess(a, b) ==
    \E i \in 1..Len(b) :
        /\ i <= Len(a) + 1
        /\ \A j \in 1..(i - 1) : a[j] = b[j]
        /\ i = Len(a) + 1 \/ CodePoint(a[i]) < CodePoint(b[i])

\* The entry x of a ranking has to come before the entry y: a higher mean,
\* or the same mean and more occurrences, or both the same and the smaller key.
RankedBefore(x, y) ==
    LET same_mean == /\ MeanGE(x.average_strength, y.average_strength)
                     /\ MeanGE(y.average_strength, x.average_strength)
    IN  \/ ~MeanGE(y.average_strength, x.average_strength)
        \/ same_mean /\ x.occurrences > y.occurrences
        \/ same_mean /\ x.occurrences = y.occurrences /\ LexLess(x.pattern, y.pattern)

\* C11: a ranking lists the keys by mean strength descending, ties by
\* occurrence count descending and then by key, and running it again on the
\* same state gives the same ranking.
C11_RankingOrder ==
    response.op = "get_top_patterns" =>
        LET ranking == response.returned
        IN  /\ \A i \in 1..Len(ranking) : \A j \in (i + 1)..Len(ranking) :
                   RankedBefore(ranking[i], ranking[j])
            /\ ranking = GetTopPatterns(state, response.limit)

\* The strengths recorded under each key, whatever the order of the keys.
RecordedStrengths(st) ==
    {<<st.pattern_strengths[k].key,
       [i \in 1..Len(st.pattern_strengths[k].value) |->
           st.pattern_strengths[k].value[i].strength]>> :
        k \in 1..Len(st.pattern_strengths)}

\* The keys of a ranking, in its order.
RankedKeys(ranking) == [i \in 1..Len(ranking) |-> ranking[i].pattern]

\* The entry reports the arithmetic mean of the strengths of the history.
ReportsMeanOf(entry, history) ==
    /\ entry.average_strength.den > 0
    /\ entry.average_strength.num * Len(history)
           = entry.average_strength.den * SumStrength(history, 1)

\* C12: a ranking of limit >= 0 has min(limit, number of keys with a history)
\* entries, one key each, every entry reports the mean of all strengths of
\* its key, and no key left out has a higher mean than one returned; A:[0.9],
\* B:[0.5, 0.7], C:[0.95, 0.95] with limit 2 give C, A.
C12_RankingSelection ==
    response.op = "get_top_patterns" =>
        LET ranking == response.returned
            strengths == state.pattern_strengths
            with_history == {k \in 1..Len(strengths) : strengths[k].value # <<>>}
            returned_keys == {ranking[i].pattern : i \in 1..Len(ranking)}
        IN  /\ Len(ranking) = Min(response.limit, Cardinality(with_history))
            /\ Cardinality(returned_keys) = Len(ranking)
            /\ \A i \in 1..Len(ranking) :
                   \E k \in with_history :
                       /\ strengths[k].key = ranking[i].pattern
                       /\ ReportsMeanOf(ranking[i], strengths[k].value)
            /\ \A k \in with_history :
                   strengths[k].key \notin returned_keys
                       => \A i \in 1..Len(ranking) :
                              MeanGE(ranking[i].average_strength, Mean(strengths[k].value))
            /\ (/\ RecordedStrengths(state) = {<<<<"A", "_">>, <<90>>>>,
                                                <<<<"B", "_">>, <<50, 70>>>>,
                                                <<<<"C", "_">>, <<95, 95>>>>}
                /\ response.limit = 2)
                   => RankedKeys(ranking) = <<<<"C", "_">>, <<"A", "_">>>>

C12_Witness ==
    /\ response.op = "get_top_patterns"
    /\ response.limit = 2
    /\ RecordedStrengths(state) = {<<<<"A", "_">>, <<90>>>>,
                                   <<<<"B", "_">>, <<50, 70>>>>,
                                   <<<<"C", "_">>, <<95, 95>>>>}
    /\ RankedKeys(response.returned) = <<<<"C", "_">>, <<"A", "_">>>>

\* C13: the emergence events hold exactly one event for every key whose first
\* recorded strength is above 0.8 and none for any other key, and the event
\* carries the item index of the first entry of the history of its key.
C13_EmergenceEvents ==
    response.op = "get_pattern_evolution" =>
        LET events == response.emergence_events
            strengths == state.pattern_strengths
        IN  /\ \A k \in 1..Len(strengths) :
                   LET history == strengths[k].value
                       of_key == {i \in 1..Len(events) : events[i].pattern = strengths[k].key}
                   IN  IF history # <<>> /\ history[1].strength > EmergenceThreshold
                       THEN /\ Cardinality(of_key) = 1
                            /\ \A i \in of_key : events[i].video = history[1].video
                       ELSE of_key = {}
            /\ \A i \in 1..Len(events) :
                   \E k \in 1..Len(strengths) : events[i].pattern = strengths[k].key

C13_Witness ==
    /\ response.op = "get_pattern_evolution"
    /\ \E i \in 1..Len(response.emergence_events) :
           response.emergence_events[i].video < state.videos_processed - 1
    /\ \E k \in 1..Len(state.pattern_strengths) :
           LET history == state.pattern_strengths[k].value
           IN  /\ history[1].strength = EmergenceThreshold
               /\ history[Len(history)].strength > EmergenceThreshold

\* C14: a discovery call made while no video has been processed returns no
\* patterns and no correlations: what it returns of either comes from a call
\* made with videos_processed > 0.
C14_DiscoveryNeedsHistory ==
    response.op = "discover_patterns" =>
        /\ response.videos_processed = 0
               => /\ response.returned.patterns = <<>>
                  /\ response.returned.correlations = <<>>
        /\ (response.returned.patterns # <<>> \/ response.returned.correlations # <<>>)
               => response.videos_processed > 0

C14_Witness ==
    /\ response.op = "discover_patterns"
    /\ response.videos_processed = 0
    /\ response.use_previous_intelligence
    /\ response.draw.micro_hit
    /\ response.returned.patterns = <<>>
    /\ response.returned.correlations = <<>>

\* C15: a discovery call returns meta-patterns only if at least 11 videos had
\* been processed when it was made, and none for 0 to 10 videos.
C15_MetaPatternsNeedHistory ==
    response.op = "discover_patterns" =>
        /\ response.returned.meta_patterns # <<>> => response.videos_processed >= 11
        /\ response.videos_processed \in 0..10 => response.returned.meta_patterns = <<>>

C15_Witness ==
    /\ response.op = "discover_patterns"
    /\ response.videos_processed = 11
    /\ response.returned.meta_patterns # <<>>

\* C16: every discovery call explores the unknown space, whatever the number
\* of videos processed and whether or not previous intelligence is used: an
\* unusual variance of the signal it draws is in the unknown list it returns.
C16_UnknownSpaceAlwaysExplored ==
    response.op = "discover_patterns" =>
        /\ response.returned.unknown = ExploreUnknownSpace(response.draw)
        /\ response.draw.unusual_variance => response.returned.unknown # <<>>

C16_Witness ==
    /\ response.op = "discover_patterns"
    /\ response.videos_processed = 0
    /\ ~response.use_previous_intelligence
    /\ response.returned.unknown # <<>>

\* C17: within one process call discovery sees the state before the merge of
\* this call (on a fresh engine it finds no pattern and no correlation, on
\* one with history it finds the correlation), the merge comes next (one
\* more video, the row of this call last in the log) and the checkpoint
\* last: the snapshot the call wrote is the merged state.
C17_PipelineOrder ==
    [][(response'.op = "process_video" /\ response'.status = "ok")
       => /\ \E draw \in Draws :
                 LET discoveries == DiscoverPatterns(state, draw, TRUE)
                 IN  /\ response'.patterns_discovered = discoveries.patterns
                     /\ response'.correlations_found = discoveries.correlations
                     /\ response'.unknown_signals = discoveries.unknown
          /\ state.videos_processed = 0
                 => /\ response'.patterns_discovered = <<>>
                    /\ response'.correlations_found = <<>>
          /\ state.videos_processed > 0 => response'.correlations_found # <<>>
          /\ state'.videos_processed = state.videos_processed + 1
          /\ state'.total_correlations
                 = state.total_correlations + Len(response'.correlations_found)
          /\ state'.discoveries[Len(state'.discoveries)].correlations_found
                 = Len(response'.correlations_found)
          /\ response'.checkpoint_saved
                 => LET snapshot == checkpoint_dir'.pkl[response'.video_number]
                    IN  /\ snapshot.content = <<state'>>
                        /\ snapshot.mtime = clock'
                        /\ snapshot.content[1].videos_processed
                               = state.videos_processed + 1]_vars

C17_Witness ==
    /\ Processed
    /\ response.checkpoint_saved
    /\ state.videos_processed = 2
    /\ response.correlations_found # <<>>
    /\ checkpoint_dir.pkl[response.video_number].content = <<state>>
    /\ state.discoveries[1].correlations_found = 0
    /\ state.discoveries[2].correlations_found = 1

\* The operations that read the accumulated state.
ReadOperations ==
    {"discover_patterns", "get_intelligence_state", "get_recent_discoveries",
     "get_top_patterns", "get_pattern_evolution", "create_checkpoint"}

\* C18: discover_patterns, get_current_state, get_recent_discoveries,
\* _get_top_patterns, get_pattern_evolution and create_checkpoint (which is
\* save_checkpoint under the current count) leave every field of the
\* accumulated state as it was.
C18_ReadsLeaveStateUnchanged ==
    [][response'.op \in ReadOperations => state' = state]_vars

C18_Witness ==
    /\ response.op = "create_checkpoint"
    /\ response.save_returned
    /\ state \in AccumulatedStates
    /\ state.pattern_strengths # EmptyDict
    /\ checkpoint_dir.pkl[response.checkpoint_path].content = <<state>>

\* C19: a process call whose merge returns true appends exactly one row, with
\* the index of the call and the lengths of the lists discovery returned to
\* it; on a fresh engine with an empty store, process of index 0 leaves one
\* video processed and a one-row log and, its save having returned true, one
\* snapshot in the store, under index 0.
C19_OneRowPerProcess ==
    [][(/\ response'.op = "process_video"
        /\ response'.status = "ok"
        /\ response'.intelligence_updated)
       => /\ state'.discoveries =
                 Append(state.discoveries,
                        [video |-> response'.video_number,
                         patterns_found |-> Len(response'.patterns_discovered),
                         correlations_found |-> Len(response'.correlations_found),
                         unknown_signals |-> Len(response'.unknown_signals)])
          /\ (/\ state = FreshState
              /\ checkpoint_dir = EmptyStore
              /\ response'.video_number = 0)
                 => /\ state'.videos_processed = 1
                    /\ Len(state'.discoveries) = 1
                    /\ response'.checkpoint_saved
                           => /\ DOMAIN checkpoint_dir'.pkl = {0}
                              /\ DOMAIN checkpoint_dir'.json = {0}
                              /\ checkpoint_dir'.pkl[0].content = <<state'>>]_vars

C19_Witness ==
    /\ Processed
    /\ response.intelligence_updated
    /\ response.checkpoint_saved
    /\ response.video_number = 0
    /\ state.videos_processed = 1
    /\ Videos(state.discoveries) = <<0>>
    /\ state.discoveries[1].unknown_signals = 1
    /\ DOMAIN checkpoint_dir.pkl = {0}
    /\ clock = 1

\* C20: for limit >= 0 the recent discoveries are the last
\* min(limit, len(log)) rows of the log, oldest first; limit 0 gives none.
C20_RecentDiscoveries ==
    (response.op = "get_recent_discoveries" /\ response.limit >= 0) =>
        LET log == state.discoveries
            n == Min(response.limit, Len(log))
        IN  /\ response.discoveries = SubSeq(log, Len(log) - n + 1, Len(log))
            /\ response.count = n

\* C21: a caller's write to a value that get_current_state,
\* get_recent_discoveries or get_pattern_evolution returned, nested rows and
\* histories included, leaves the accumulated state as it was.
C21_QueriesReturnCopies ==
    [][response'.op = "caller_write" => state' = state]_vars

IsPrefix(a, b) == Len(a) <= Len(b) /\ SubSeq(b, 1, Len(a)) = a

\* Every key of d is a key of e, with the history of d at the start of its
\* history in e.
KeepsHistories(d, e) ==
    \A i \in 1..Len(d) :
        \E j \in 1..Len(e) : e[j].key = d[i].key /\ IsPrefix(d[i].value, e[j].value)

\* C23: across every step of a running engine the discovery log and every
\* history of pattern_strengths and correlation_matrix is a prefix of what it
\* is after the step, and no key is removed.
C23_HistoriesAppendOnly ==
    [][(engine = "running" /\ engine' = "running" /\ response'.op # "construct")
       => /\ IsPrefix(state.discoveries, state'.discoveries)
          /\ KeepsHistories(state.pattern_strengths, state'.pattern_strengths)
          /\ KeepsHistories(state.correlation_matrix, state'.correlation_matrix)]_vars

C23_Witness ==
    /\ response.op = "update_intelligence"
    /\ response.returned
    /\ Len(state.discoveries) = 2
    /\ \E k \in 1..Len(state.pattern_strengths) :
           Len(state.pattern_strengths[k].value) = 2

\* The keys of a dict.
Keys(d) == {d[i].key : i \in 1..Len(d)}

\* C24: the state query reports pattern_diversity as the number of distinct
\* pattern keys, correlation_density as the number of distinct feature-pair
\* keys and discovery_rate as total_patterns / max(1, videos_processed): a
\* quotient that is defined, and 0 on a fresh engine.
C24_SnapshotMetrics ==
    response.op = "get_intelligence_state" =>
        LET metrics == response.body.metrics
            rate == metrics.discovery_rate
        IN  /\ metrics.pattern_diversity = Cardinality(Keys(state.pattern_strengths))
            /\ metrics.correlation_density = Cardinality(Keys(state.correlation_matrix))
            /\ rate.den > 0
            /\ rate.num * Max(1, state.videos_processed) = state.total_patterns * rate.den
            /\ state = FreshState => rate.num = 0

C24_Witness ==
    /\ response.op = "get_intelligence_state"
    /\ state = FreshState
    /\ response.body.metrics.discovery_rate = [num |-> 0, den |-> 1]

\* C25: a process call on a bundle with modalities missing, or on an empty
\* one, does not fail: it is answered without an error, its merge returns
\* true, and it leaves the state and the store a complete bundle leaves.
C25_MissingModalitiesDoNotFail ==
    [][response'.op = "process_bundle"
       => /\ response'.status = "ok"
          /\ response'.intelligence_updated
          /\ \E draw \in Draws, io \in SaveOutcomes :
                 LET discoveries == DiscoverPatterns(state, draw, TRUE)
                     updated == UpdateIntelligence(state, discoveries,
                                                   response'.video_number)
                     saved == SaveCheckpoint(updated.state, checkpoint_dir, clock',
                                             response'.video_number, io)
                 IN  /\ response'.patterns_discovered = discoveries.patterns
                     /\ response'.correlations_found = discoveries.correlations
                     /\ response'.unknown_signals = discoveries.unknown
                     /\ state' = updated.state
                     /\ checkpoint_dir' = saved.store
                     /\ response'.checkpoint_saved = saved.ok]_vars

C25_Witness ==
    /\ response.op = "process_bundle"
    /\ response.features = EmptyDict
    /\ response.status = "ok"
    /\ response.intelligence_updated
    /\ response.checkpoint_saved
    /\ response.correlations_found # <<>>
    /\ state.videos_processed = 2
    /\ checkpoint_dir.pkl[response.video_number].content = <<state>>

\* The step wrote the snapshot of video_number in full.
SnapshotWritten(video_number) ==
    /\ video_number \in DOMAIN checkpoint_dir'.pkl
    /\ checkpoint_dir'.pkl[video_number] = [content |-> <<state'>>, mtime |-> clock']

\* C26: a save_checkpoint call, of process_video or of create_checkpoint,
\* that returns true has written both the snapshot and the summary of its
\* index; a call that wrote the snapshot and left no summary of the saved
\* state returns false.
C26_SuccessMeansBothArtifacts ==
    [][(response'.op \in {"process_video", "create_checkpoint"} /\ response'.status = "ok")
       => LET video_number == IF response'.op = "process_video"
                              THEN response'.video_number
                              ELSE response'.checkpoint_path
              returned == IF response'.op = "process_video"
                          THEN response'.checkpoint_saved
                          ELSE response'.save_returned
          IN  /\ returned => BothArtifactsWritten(video_number)
              /\ (/\ SnapshotWritten(video_number)
                  /\ \/ video_number \notin DOMAIN checkpoint_dir'.json
                     \/ checkpoint_dir'.json[video_number] # <<ReadableState(state')>>)
                     => ~returned]_vars

C26_Witness ==
    /\ response.op = "create_checkpoint"
    /\ response.save_returned
    /\ state.videos_processed = 1
    /\ checkpoint_dir.pkl[1] = [content |-> <<state>>, mtime |-> clock]
    /\ checkpoint_dir.json[1] = <<ReadableState(state)>>
    /\ 0 \notin DOMAIN checkpoint_dir.json

\* The sum of the numbers of a sequence from the i-th on.
RECURSIVE SumFrom(_, _)
SumFrom(numbers, i) ==
    IF i > Len(numbers) THEN 0 ELSE numbers[i] + SumFrom(numbers, i + 1)

\* The number of entries of all the histories of a dict.
Entries(d) == SumFrom([i \in 1..Len(d) |-> Len(d[i].value)], 1)

\* C28: in every state that update_intelligence calls on a fresh engine
\* reach, total_patterns is the sum of patterns_found over the log and the
\* number of entries of the pattern histories, and total_correlations the
\* sum of correlations_found and the number of entries of the correlation
\* histories.
C28_TotalsAgreeWithHistory ==
    LET log == state.discoveries
    IN  /\ state.total_patterns
               = SumFrom([i \in 1..Len(log) |-> log[i].patterns_found], 1)
        /\ state.total_patterns = Entries(state.pattern_strengths)
        /\ state.total_correlations
               = SumFrom([i \in 1..Len(log) |-> log[i].correlations_found], 1)
        /\ state.total_correlations = Entries(state.correlation_matrix)

\* C29: a snapshot that process_video wrote holds as many log rows as
\* videos_processed counts, so none holds the state a failed merge left.
C29_SnapshotsHoldWholeMerges ==
    [][(/\ response'.op = "process_video"
        /\ response'.status = "ok"
        /\ SnapshotWritten(response'.video_number))
       => state'.videos_processed = Len(state'.discoveries)]_vars

\* The totals of st agree with its log and its histories.
TotalsAgree(st) ==
    /\ st.total_patterns
           = SumFrom([i \in 1..Len(st.discoveries) |-> st.discoveries[i].patterns_found], 1)
    /\ st.total_patterns = Entries(st.pattern_strengths)
    /\ st.total_correlations
           = SumFrom([i \in 1..Len(st.discoveries) |-> st.discoveries[i].correlations_found], 1)
    /\ st.total_correlations = Entries(st.correlation_matrix)

\* C22: the state a read-only request is answered from is never half
\* merged: counter, histories and log agree, and when a process_video is in
\* flight it is the state before its merge or the state after it.
C22_QueriesSeeWholeMerges ==
    [][Len(loop'.ready) < Len(loop.ready)
       => /\ response'.op = Head(loop.ready).op
          /\ state.videos_processed = Len(state.discoveries)
          /\ TotalsAgree(state)
          /\ loop.running # <<>>
                 => state \in {Running.before,
                               UpdateIntelligence(Running.before, Running.discoveries,
                                                  Running.video_number).state}]_vars

\* A request that came while the first merge was half done was answered
\* with the row of that merge.
C22_Witness ==
    /\ response.op = "get_recent_discoveries"
    /\ response.during_merge
    /\ response.count = 1
    /\ state.videos_processed = 1
    /\ state.total_correlations = 0
    /\ loop = IdleLoop

\* The positions of monitor_realtime at a requests.get.
AtRequest == {MonitorRequests[i] : i \in 1..Len(MonitorRequests)}

\* C27: a connection error or a timeout of a request sends monitor_realtime
\* to its backoff and not out of the loop; the backoff sleeps twice the
\* refresh interval and leads back to the test of the loop, from where the
\* monitor polls again while running is true; the loop is left from its
\* test alone, with running false after a signal.  Under the fairness of
\* SpecMonitorLive every backoff is followed by a new poll or by the return.
C27_RequestErrorsAreTransient ==
    /\ [][/\ (/\ monitor.pc \in AtRequest
              /\ monitor'.pc # monitor.pc
              /\ monitor'.last \in RequestErrors)
                 => monitor'.pc = "backoff"
          /\ (monitor.pc = "backoff" /\ monitor'.pc # "backoff")
                 => /\ monitor'.pc = "while"
                    /\ monitor'.slept = 2 * monitor.refresh_rate
          /\ (monitor.pc = "while" /\ monitor'.pc # "while")
                 => monitor'.pc = IF monitor.running THEN "get_state" ELSE "returned"
          /\ (monitor'.pc = "returned" /\ monitor.pc # "returned")
                 => /\ monitor.pc = "while"
                    /\ ~monitor.running]_vars
    /\ (monitor.pc = "backoff") ~> (monitor.pc \in {"get_state", "returned"})

\* The monitor is polling again after a timeout and a backoff of twice the
\* default refresh interval.
C27_Witness ==
    /\ monitor.pc = "get_state"
    /\ monitor.last = "timeout"
    /\ monitor.refresh_rate = 5
    /\ monitor.slept = 10
    /\ monitor.running

\* The reply is one the claim names: a transport error, a status other
\* than 200, or a body that is no JSON or lacks an expected field.
FailingReply(reply) ==
    \/ reply.raises # ""
    \/ reply.status_code # 200
    \/ IF reply.json = <<>> THEN TRUE
       ELSE ~(ResponseFields \subseteq DOMAIN reply.json[1])

\* The response is the fallback of the request.
IsFallbackOf(value, request) ==
    /\ value.status = "ERROR"
    /\ value.next_actions = <<>>
    /\ value.agent_assignments = EmptyDict
    /\ value.correlation_id = request.correlation_id

\* C30: coordinate_agent raises nothing, and on a failing reply it returns
\* the ERROR response with no next actions, no assignments and the
\* correlation_id of its request; a phase returns one response for each
\* request it sent, the fallback for each agent whose reply failed.
C30_CoordinateAgentNeverRaises ==
    /\ response.op = "coordinate_agent"
           => /\ ~response.raised
              /\ FailingReply(response.reply)
                     => IsFallbackOf(response.value, response.request)
    /\ response.op \in {"coordinate_phase", "start_video_processing"}
           => /\ ~response.raised
              /\ Len(response.returned) = Len(response.requests)
              /\ \A i \in 1..Len(response.requests) :
                     FailingReply(response.replies[i])
                         => IsFallbackOf(response.returned[i], response.requests[i])

\* A phase of two agents went through with the first agent's body lacking
\* next_actions and the second agent's complete.
C30_Witness ==
    /\ response.op = "coordinate_phase"
    /\ Len(response.requests) = 2
    /\ response.replies[1].json = <<BodyWithout("next_actions")>>
    /\ response.replies[2].json = <<CompleteBody>>
    /\ response.returned[1].status = "ERROR"
    /\ response.returned[1].response_data = [error |-> "KeyError"]
    /\ response.returned[2].status = "OK"
    /\ coordinator.active_phase = <<"QUALITY_ASSURANCE">>

====
